---- MODULE Spec2Model ----
(***************************************************************************)
(* Model of ChatModule (src/intelli-policy/src/App.jsx): the streaming     *)
(* query handler handleSend with its EventSource callbacks and its fetch   *)
(* fallback, the typewriter (typeMessage / clearTyping), the location       *)
(* lookup and the voice input; and of CalculatorModule's local plan        *)
(* (buildPlan).  Text is a sequence of one-character strings.  Every handler *)
(* runs to completion on the single event loop and React commits the       *)
(* state it set before the next handler runs, so one handler is one step.  *)
(***************************************************************************)
EXTENDS Integers, Sequences, FiniteSets, TLC

\* ---------------------------------------------------------------- bounds
MaxSessions == 2
MaxFrames == 2
MaxRuns == 3
MaxTicks == 2
MaxTags == 2
FirstInstant == 10

\* ---------------------------------------------------------------- the calculator's constants
\* useState(15000); the slider: min="2000" max="50000" step="1000"
DefaultBudget == 15000
MinBudget == 2000
MaxBudget == 50000
BudgetStep == 1000
\* PRICES[tag] || 3000 and RATES[tag] ?? 0.15, the rate in hundredths
DefaultPrice == 3000
DefaultRate == 15

\* ---------------------------------------------------------------- text
IsSpace(c) == c = " "

RECURSIVE TrimStart(_)
TrimStart(t) ==
    IF t # <<>> /\ IsSpace(Head(t)) THEN TrimStart(Tail(t)) ELSE t

RECURSIVE TrimEnd(_)
TrimEnd(t) ==
    IF t # <<>> /\ IsSpace(t[Len(t)]) THEN TrimEnd(SubSeq(t, 1, Len(t) - 1)) ELSE t

\* String.prototype.trim
Trim(t) == TrimEnd(TrimStart(t))

\* String.prototype.charAt: the empty string when i is out of range
CharAt(t, i) == IF i >= 0 /\ i < Len(t) THEN <<t[i + 1]>> ELSE <<>>

\* the values the textarea, the voice transcript and the buttons can carry, and the
\* texts typeMessage is called with
InputTexts == {<<>>, <<" ">>, <<" ", "b">>}
QuickQuestions == {<<"a">>}
TypeTexts == {<<>>, <<"a">>, <<"a", "b">>, <<"b", "a", "b">>}

\* ---------------------------------------------------------------- state
VARIABLES
    messages,        \* useState: the transcript; sid is a ghost field (owning query, 0: none)
    input,           \* useState: the textarea buffer
    isThinking,      \* useState
    userLocation,    \* useState: NoLocation stands for null
    geo,             \* "pending" while getCurrentPosition has not called back
    typingMessage,   \* useState: the display buffer
    isTyping,        \* useState
    typingIndex,     \* useRef
    typingInterval,  \* useRef: 0 stands for null, else the armed timer's handle
    timers,          \* the browser's armed intervals: handle -> the message its closure holds
    nextTimer,       \* the next handle setInterval returns
    sessions,        \* one record per handleSend call that passed the blank test: its closure
    recognition,     \* useState: FALSE stands for null, TRUE for the SpeechRecognition instance
    isListening,     \* useState
    capture,         \* the browser's state of the recognition instance
    now,             \* Date.now()
    ids,             \* the id of each message of the transcript, in the transcript's order
    budget,          \* CalculatorModule's useState
    selectedTags,    \* CalculatorModule's useState
    loading,         \* CalculatorModule's useState
    calcResult,      \* CalculatorModule's useState result: NoPlan stands for null
    last             \* ghost: the handler that ran last

typing == <<typingMessage, isTyping, typingIndex, typingInterval, timers, nextTimer>>
chat == <<messages, input, isThinking, userLocation, geo, sessions>>
voice == <<recognition, isListening, capture>>
clock == <<now, ids>>
calc == <<budget, selectedTags, loading, calcResult>>
vars == <<messages, input, isThinking, userLocation, geo, typingMessage, isTyping,
          typingIndex, typingInterval, timers, nextTimer, sessions, recognition,
          isListening, capture, now, ids, budget, selectedTags, loading, calcResult, last>>

NoLocation ==
    [set |-> FALSE, province |-> "", city |-> "", district |-> "", coords |-> FALSE]

DefaultLocation ==
    [set |-> TRUE, province |-> "Shandong", city |-> "Jinan", district |-> "", coords |-> FALSE]

LocatedLocation ==
    [set |-> TRUE, province |-> "Shandong", city |-> "Jinan", district |-> "", coords |-> TRUE]

\* CalculatorModule's result before any calculation, and while one is loading
NoPlan == [items |-> <<>>, total_subsidy |-> -1, net_spend |-> -1,
           utilization |-> [num |-> 0, den |-> 1]]

Op(op, sid, kind, text) == [op |-> op, sid |-> sid, kind |-> kind, text |-> text]

\* ---------------------------------------------------------------- typewriter
Disarm_KeepsArmed(armed, handle) == armed

\* clearInterval(typingInterval.current): disarms that handle
Disarm(armed, handle) == [h \in (DOMAIN armed) \ {handle} |-> armed[h]]

ClearedTimers_NoClearInterval == timers

\* clearTyping's clearInterval: the armed intervals it leaves
ClearedTimers == IF typingInterval # 0 THEN Disarm(timers, typingInterval) ELSE timers

ClearTyping_KeepsBuffer ==
    /\ timers' = ClearedTimers
    /\ typingInterval' = 0
    /\ UNCHANGED <<isTyping, typingMessage, typingIndex, nextTimer>>

\* clearTyping
ClearTyping ==
    /\ timers' = ClearedTimers
    /\ typingInterval' = 0
    /\ isTyping' = FALSE
    /\ typingMessage' = <<>>
    /\ typingIndex' = 0
    /\ UNCHANGED nextTimer

\* setInterval(callback, 30): a fresh handle, armed with the closure's message
Arm(armed, handle, message) ==
    [h \in (DOMAIN armed) \cup {handle} |-> IF h = handle THEN message ELSE armed[h]]

TypeMessage(message) ==
    /\ nextTimer <= MaxRuns
    /\ timers' = Arm(ClearedTimers, nextTimer, message)
    /\ typingInterval' = nextTimer
    /\ nextTimer' = nextTimer + 1
    /\ isTyping' = TRUE
    /\ typingMessage' = <<>>
    /\ typingIndex' = 0
    /\ last' = Op("typeMessage", nextTimer, "", message)
    /\ UNCHANGED <<chat, voice, clock, calc>>

TickReveals_OffByOne(message) == typingIndex <= Len(message)

\* the interval callback's test
TickReveals(message) == typingIndex < Len(message)

\* setTypingMessage(prev => prev + message.charAt(typingIndex.current)): React runs
\* the updater either at once (eagerly) or when it renders, after typingIndex.current++
Revealed(prev, message, eager) ==
    prev \o CharAt(message, IF eager THEN typingIndex ELSE typingIndex + 1)

TypeTick(handle) ==
    /\ handle \in DOMAIN timers
    /\ IF TickReveals(timers[handle])
       THEN /\ \E eager \in BOOLEAN :
                 typingMessage' = Revealed(typingMessage, timers[handle], eager)
            /\ typingIndex' = typingIndex + 1
            /\ UNCHANGED <<isTyping, typingInterval, timers, nextTimer>>
       ELSE ClearTyping
    /\ last' = Op("tick", handle, IF TickReveals(timers[handle]) THEN "reveal" ELSE "end",
                  timers[handle])
    /\ UNCHANGED <<chat, voice, clock, calc>>

\* the unmount cleanup (and every other direct call of clearTyping)
ClearTypingCall ==
    /\ ClearTyping
    /\ last' = Op("clearTyping", typingInterval, "", <<>>)
    /\ UNCHANGED <<chat, voice, clock, calc>>

\* ---------------------------------------------------------------- payloads
\* confidence and similarity are numbers in [0,1], held in ten-thousandths; -1: absent
Source1 == [source |-> "rules.pdf", similarity |-> 9500]
Source2 == [source |-> "notice.pdf", similarity |-> 8125]
Source3 == [source |-> "faq.pdf", similarity |-> 5000]

\* isArray is Array.isArray(sources); a value that is no array has no items here
Payload(answer, confidence, isArray, sources) ==
    [answer |-> answer, confidence |-> confidence, isArray |-> isArray, sources |-> sources]

Payloads == { Payload(<<"a", "b">>, 9200, TRUE, <<Source1, Source2, Source3>>) }

\* the shapes a result can take: confidence absent, exact, or needing rounding; sources
\* absent or no array, empty, one, two, or more than two
FormatPayloads ==
    { Payload(answer, confidence, isArray, sources) :
        answer \in {<<"a", "b">>},
        confidence \in {-1, 9200, 9235, 10000},
        isArray \in BOOLEAN,
        sources \in {<<>>, <<Source1>>, <<Source2, Source1>>, <<Source1, Source2, Source3>>} }
        \ { Payload(<<"a", "b">>, c, FALSE, x) :
                 c \in {-1, 9200, 9235, 10000},
                 x \in {<<Source1>>, <<Source2, Source1>>, <<Source1, Source2, Source3>>} }

\* Math.round(((x || 0) * 1000)) / 10, in tenths of a percent
Percent(x) == ((IF x < 0 THEN 0 ELSE x) + 5) \div 10

\* sources.slice(0, 2).map((s, i) => `${i + 1}. ${s.source} (相关度: ...%)`)
SourcesText(sources) ==
    [i \in 1..(IF Len(sources) < 2 THEN Len(sources) ELSE 2) |->
        [n |-> i, source |-> sources[i].source, pct |-> Percent(sources[i].similarity)]]

\* case 'complete': `${result.answer}\n\n置信度: ${confidencePercent}%${sourcesText}`,
\* sourcesText being '' unless Array.isArray(result.sources) && result.sources.length
FormatReply(result) ==
    [kind |-> "reply", body |-> result.answer, pct |-> Percent(result.confidence),
     sources |-> IF result.isArray /\ Len(result.sources) # 0
                 THEN SourcesText(result.sources)
                 ELSE <<>>]

FormatFallbackReply_ThreeSources(data) ==
    [kind |-> "reply", body |-> data.answer, pct |-> Percent(data.confidence),
     sources |-> IF data.isArray /\ Len(data.sources) # 0
                 THEN [i \in 1..(IF Len(data.sources) < 3 THEN Len(data.sources) ELSE 3) |->
                         [n |-> i, source |-> data.sources[i].source,
                          pct |-> Percent(data.sources[i].similarity)]]
                 ELSE <<>>]

\* the fallback's then: the same template, written a second time over data
FormatFallbackReply(data) ==
    [kind |-> "reply", body |-> data.answer,
     pct |-> ((IF data.confidence < 0 THEN 0 ELSE data.confidence) + 5) \div 10,
     sources |-> IF data.isArray /\ Len(data.sources) # 0
                 THEN [i \in 1..(IF Len(data.sources) < 2 THEN Len(data.sources) ELSE 2) |->
                         [n |-> i, source |-> data.sources[i].source,
                          pct |-> ((IF data.sources[i].similarity < 0 THEN 0
                                    ELSE data.sources[i].similarity) + 5) \div 10]]
                 ELSE <<>>]

UserText(text) == [kind |-> "user", body |-> text, pct |-> 0, sources |-> <<>>]
\* `错误: ${data.message}`
ErrorText(message) == [kind |-> "error", body |-> message, pct |-> 0, sources |-> <<>>]
\* '抱歉，服务暂时不可用，请稍后重试。'
UnavailableText == [kind |-> "unavailable", body |-> <<>>, pct |-> 0, sources |-> <<>>]

UserMessage_Trimmed(text, sid) == [type |-> "user", text |-> UserText(Trim(text)), sid |-> sid]

\* { id: Date.now(), type: 'user', text }
UserMessage(text, sid) == [type |-> "user", text |-> UserText(text), sid |-> sid]
BotMessage(text, sid) == [type |-> "bot", text |-> text, sid |-> sid]

\* CHAT_SCRIPTS['default'], the greeting the transcript starts with
Greeting == [type |-> "bot", text |-> [kind |-> "greeting", body |-> <<>>, pct |-> 0,
                                       sources |-> <<>>], sid |-> 0]

\* ---------------------------------------------------------------- stream frames
NoResult == Payload(<<>>, -1, FALSE, <<>>)

ChunkFrame(content) == [type |-> "chunk", content |-> content, result |-> NoResult]
CompleteFrame(result) == [type |-> "complete", content |-> <<>>, result |-> result]
ErrorFrame(message) == [type |-> "error", content |-> message, result |-> NoResult]
\* a frame of a type the switch has no case for
OtherFrame == [type |-> "other", content |-> <<>>, result |-> NoResult]
\* a frame whose data JSON.parse rejects
BadJsonFrame == [type |-> "badjson", content |-> <<>>, result |-> NoResult]

Frames ==
    {ChunkFrame(c) : c \in {<<"a">>, <<"b">>}}
        \cup {CompleteFrame(r) : r \in Payloads}
        \cup {ErrorFrame(<<"b">>), OtherFrame, BadJsonFrame}

\* what the fallback fetch can settle with: a rejection, a non-ok status, a body
\* res.json() rejects, or a payload
FetchFailures == {"reject", "notok", "badjson"}

FetchOutcomes ==
    {[status |-> f, data |-> NoResult] : f \in FetchFailures}
        \cup {[status |-> "ok", data |-> r] : r \in Payloads}

\* ---------------------------------------------------------------- transcript
Appended_Prepended(prev, message) == <<message>> \o prev

\* setMessages(prev => [...prev, message])
Appended(prev, message) == Append(prev, message)

\* id: Date.now(), of a user message
UserId == now

\* id: Date.now() + 1, of an assistant message
BotId == now + 1

\* the clock reaches its next millisecond
Tick ==
    /\ now < FirstInstant + MaxTicks
    /\ now' = now + 1
    /\ UNCHANGED <<chat, typing, voice, calc, ids, last>>

\* ---------------------------------------------------------------- handleSend
\* the stream's query parameters (their values, before encodeURIComponent): city only
\* when userLocation and its city are set, province and district only beside a city
StreamUrl(text, location) ==
    [question |-> text,
     city |-> IF location.set /\ location.city # "" THEN location.city ELSE "",
     province |-> IF location.set /\ location.city # "" THEN location.province ELSE "",
     district |-> IF location.set /\ location.city # "" THEN location.district ELSE ""]

NoBody == [question |-> <<>>, location |-> NoLocation]

\* the closure of one handleSend call: location is the userLocation it captured; frames,
\* chunks, fetchCalls, result (the payload the session was answered with), url (what the
\* EventSource was opened with) and body (what the fallback request carried) are ghosts
NewSession(text) ==
    [text |-> text, location |-> userLocation, es |-> "open",
     hasReceivedData |-> FALSE, isCompleted |-> FALSE, accumulatedText |-> <<>>,
     fetch |-> "none", frames |-> 0, chunks |-> <<>>, fetchCalls |-> 0,
     result |-> NoResult, url |-> StreamUrl(text, userLocation), body |-> NoBody]

Rejects_NoTrim(text) == text = <<>>

\* if (!text.trim()) return;
Rejects(text) == Trim(text) = <<>>

HandleSend(text, via) ==
    /\ IF Rejects(text)
       THEN UNCHANGED <<chat, typing, ids>>
       ELSE /\ Len(sessions) < MaxSessions
            /\ messages' = Appended(messages, UserMessage(text, Len(sessions) + 1))
            /\ ids' = Appended(ids, UserId)
            /\ input' = <<>>
            /\ isThinking' = TRUE
            /\ sessions' = Append(sessions, NewSession(text))
            /\ UNCHANGED <<userLocation, geo, typing>>
    /\ UNCHANGED <<voice, now, calc>>
    /\ last' = Op("send", IF Rejects(text) THEN 0 ELSE Len(sessions) + 1, via, text)

\* the send button: disabled={!input.trim() || isThinking}
SendButton ==
    /\ Trim(input) # <<>>
    /\ ~isThinking
    /\ HandleSend(input, "button")

\* the textarea's onKeyDown: Enter without Shift
EnterKey == HandleSend(input, "enter")

\* the quick-question buttons, rendered while messages.length < 3
QuickQuestion(q) ==
    /\ Len(messages) < 3
    /\ HandleSend(q, "quick")

\* the textarea's onChange (and the voice transcript's setInput)
SetInput(v) ==
    /\ input' = v
    /\ last' = Op("input", 0, "", <<>>)
    /\ UNCHANGED <<messages, isThinking, userLocation, geo, sessions, typing, voice,
                   clock, calc>>

\* ---------------------------------------------------------------- the stream's callbacks
ReceivedAfter_ChunkOnly(before, frame) == before \/ frame.type = "chunk"

\* hasReceivedData = true, the first statement of onmessage, whatever the frame
ReceivedAfter(before, frame) == TRUE

Accumulate_Prepend(accumulated, content) == content \o accumulated

\* accumulatedText += data.content
Accumulate(accumulated, content) == accumulated \o content

EsAfterFinalFrame_StaysOpen == "open"

\* eventSource.close() in case 'complete' and case 'error'
EsAfterFinalFrame == "closed"

ChunkDisplay_RestartsTypewriter(text) ==
    /\ timers' = Arm(ClearedTimers, nextTimer, text)
    /\ typingInterval' = nextTimer
    /\ nextTimer' = nextTimer + 1
    /\ isTyping' = TRUE
    /\ typingMessage' = <<>>
    /\ typingIndex' = 0

\* case 'chunk': setTypingMessage(accumulatedText); setIsTyping(true); typeMessage is
\* not called
ChunkDisplay(text) ==
    /\ typingMessage' = text
    /\ isTyping' = TRUE
    /\ UNCHANGED <<typingIndex, typingInterval, timers, nextTimer>>

\* a closed EventSource dispatches nothing: its queued tasks test readyState first
Open(s) == s \in 1..Len(sessions) /\ sessions[s].es = "open"

OnMessage(s, frame) ==
    /\ Open(s)
    /\ sessions[s].frames < MaxFrames
    /\ last' = Op("onmessage", s, frame.type, <<>>)
    /\ UNCHANGED <<input, userLocation, geo, voice, now, calc>>
    /\ LET seen == [sessions[s] EXCEPT
                       !.hasReceivedData = ReceivedAfter(@, frame),
                       !.frames = @ + 1]
       IN CASE frame.type = "chunk" ->
                 /\ sessions' = [sessions EXCEPT ![s] =
                        [seen EXCEPT
                            !.accumulatedText = Accumulate(@, frame.content),
                            !.chunks = Append(@, frame.content)]]
                 /\ ChunkDisplay(Accumulate(sessions[s].accumulatedText, frame.content))
                 /\ UNCHANGED <<messages, ids, isThinking>>
            [] frame.type = "complete" ->
                 /\ sessions' = [sessions EXCEPT ![s] =
                        [seen EXCEPT !.isCompleted = TRUE, !.es = EsAfterFinalFrame,
                                     !.result = frame.result]]
                 /\ ClearTyping
                 /\ messages' = Appended(messages, BotMessage(FormatReply(frame.result), s))
                 /\ ids' = Appended(ids, BotId)
                 /\ isThinking' = FALSE
            [] frame.type = "error" ->
                 /\ sessions' = [sessions EXCEPT ![s] =
                        [seen EXCEPT !.isCompleted = TRUE, !.es = EsAfterFinalFrame]]
                 /\ ClearTyping
                 /\ messages' = Appended(messages, BotMessage(ErrorText(frame.content), s))
                 /\ ids' = Appended(ids, BotId)
                 /\ isThinking' = FALSE
            [] OTHER ->
                 \* JSON.parse throws, or no case of the switch matches
                 /\ sessions' = [sessions EXCEPT ![s] = seen]
                 /\ UNCHANGED <<messages, ids, isThinking, typing>>

FallbackLocation_Live(session) == userLocation

\* location: userLocation, the value handleSend's closure holds
FallbackLocation(session) == session.location

\* body: JSON.stringify({ question: text, return_sources: true, location: userLocation })
FallbackBody(session) == [question |-> session.text, location |-> FallbackLocation(session)]

FallbackEligible_IgnoresData(session) == ~session.isCompleted

\* if (!hasReceivedData && !isCompleted)
FallbackEligible(session) == ~session.hasReceivedData /\ ~session.isCompleted

OnError(s) ==
    /\ Open(s)
    /\ last' = Op("onerror", s, IF FallbackEligible(sessions[s]) THEN "fallback" ELSE "stop",
                  <<>>)
    /\ UNCHANGED <<messages, input, userLocation, geo, voice, clock, calc>>
    /\ IF FallbackEligible(sessions[s])
       THEN /\ ClearTyping
            /\ sessions' = [sessions EXCEPT ![s] =
                   [@ EXCEPT !.es = "closed", !.fetch = "pending", !.fetchCalls = @ + 1,
                             !.body = FallbackBody(sessions[s])]]
            /\ UNCHANGED isThinking
       ELSE /\ sessions' = [sessions EXCEPT ![s] = [@ EXCEPT !.es = "closed"]]
            /\ isThinking' = IF ~sessions[s].isCompleted THEN FALSE ELSE isThinking
            /\ UNCHANGED typing

FallbackText_IgnoresStatus(outcome) ==
    IF outcome.status \in {"reject", "badjson"}
    THEN UnavailableText
    ELSE FormatFallbackReply(outcome.data)

\* then: a non-ok status throws and res.json() may reject, both caught by catch
FallbackText(outcome) ==
    IF outcome.status \in FetchFailures
    THEN UnavailableText
    ELSE FormatFallbackReply(outcome.data)

\* the fallback's promise chain: then / catch / finally
FetchSettles(s, outcome) ==
    /\ s \in 1..Len(sessions)
    /\ sessions[s].fetch = "pending"
    /\ sessions' = [sessions EXCEPT ![s] =
           [@ EXCEPT !.fetch = "settled", !.result = outcome.data]]
    /\ messages' = Appended(messages, BotMessage(FallbackText(outcome), s))
    /\ ids' = Appended(ids, BotId)
    /\ isThinking' = FALSE
    /\ last' = Op("fetch", s, outcome.status, <<>>)
    /\ UNCHANGED <<input, userLocation, geo, typing, voice, now, calc>>

\* ---------------------------------------------------------------- location
\* getCurrentPosition's success callback
GeoSuccess ==
    /\ geo = "pending"
    /\ geo' = "done"
    /\ userLocation' = LocatedLocation
    /\ last' = Op("geo", 0, "success", <<>>)
    /\ UNCHANGED <<messages, input, isThinking, sessions, typing, voice, clock, calc>>

LocationOnError_Null == NoLocation

\* what the error callback and the branch without navigator.geolocation set
LocationOnError == DefaultLocation

\* getCurrentPosition's error callback
GeoError ==
    /\ geo = "pending"
    /\ geo' = "done"
    /\ userLocation' = LocationOnError
    /\ last' = Op("geo", 0, "error", <<>>)
    /\ UNCHANGED <<messages, input, isThinking, sessions, typing, voice, clock, calc>>

\* ---------------------------------------------------------------- voice input
\* capture is "idle", "starting" (start() called, onstart not yet fired), "capturing",
\* "stopping" (stop() called: a last result may still come) or "ending" (only onend is
\* left to fire)
VoiceTexts == {<<"a">>, <<" ">>}

\* recognition.start() throws InvalidStateError while a session it started has not ended
StartThrows == capture # "idle"

Unsupported_Never == FALSE

\* if (!recognition)
Unsupported == ~recognition

\* the microphone button: disabled={isThinking}.  last.kind tells the branch taken:
\* "unsupported" and "startfailed" are the two that call alert
ToggleVoiceInput ==
    /\ ~isThinking
    /\ CASE Unsupported ->
              /\ last' = Op("toggle", 0, "unsupported", <<>>)
              /\ UNCHANGED capture
         [] ~Unsupported /\ isListening ->
              \* recognition.stop(): no effect unless a session is starting or capturing
              /\ last' = Op("toggle", 0, "stop", <<>>)
              /\ capture' = IF capture \in {"starting", "capturing"} THEN "stopping"
                             ELSE capture
         [] ~Unsupported /\ ~isListening /\ StartThrows ->
              \* catch (e): alert(`启动失败: ${e.message}`)
              /\ last' = Op("toggle", 0, "startfailed", <<>>)
              /\ UNCHANGED capture
         [] ~Unsupported /\ ~isListening /\ ~StartThrows ->
              /\ last' = Op("toggle", 0, "start", <<>>)
              /\ capture' = "starting"
    /\ UNCHANGED <<recognition, isListening, chat, typing, clock, calc>>

\* recognitionInstance.onstart
VoiceOnStart ==
    /\ capture = "starting"
    /\ capture' = "capturing"
    /\ isListening' = TRUE
    /\ last' = Op("voice", 0, "start", <<>>)
    /\ UNCHANGED <<recognition, chat, typing, clock, calc>>

\* recognitionInstance.onresult: interim and final transcripts overwrite the input; with
\* continuous = false the session ends after its final result
VoiceOnResult(transcript, isFinal) ==
    /\ capture \in {"capturing", "stopping"}
    /\ input' = transcript
    /\ capture' = IF isFinal THEN "ending" ELSE capture
    /\ last' = Op("voice", 0, IF isFinal THEN "final" ELSE "interim", <<>>)
    /\ UNCHANGED <<messages, isThinking, userLocation, geo, sessions, recognition,
                   isListening, typing, clock, calc>>

\* recognitionInstance.onerror: alert(`语音识别错误: ${event.error}`)
VoiceOnError ==
    /\ capture \in {"starting", "capturing", "stopping"}
    /\ capture' = "ending"
    /\ isListening' = FALSE
    /\ last' = Op("voice", 0, "error", <<>>)
    /\ UNCHANGED <<recognition, chat, typing, clock, calc>>

\* recognitionInstance.onend
VoiceOnEnd ==
    /\ capture \in {"capturing", "stopping", "ending"}
    /\ capture' = "idle"
    /\ isListening' = FALSE
    /\ last' = Op("voice", 0, "end", <<>>)
    /\ UNCHANGED <<recognition, chat, typing, clock, calc>>

\* ---------------------------------------------------------------- the calculator's plan
Tags == {"aircon", "fridge", "washer", "tv", "laptop", "heater"}

\* PRICES[tag] || 3000
Price(tag) ==
    CASE tag = "aircon" -> 3000
      [] tag = "fridge" -> 3000
      [] tag = "washer" -> 2000
      [] tag = "tv" -> 2500
      [] tag = "laptop" -> 5000
      [] tag = "heater" -> 1500
      [] OTHER -> DefaultPrice

\* RATES[tag] ?? 0.15, in hundredths
Rate(tag) ==
    CASE tag = "aircon" -> 20
      [] tag = "fridge" -> 20
      [] tag \in {"washer", "tv", "laptop", "heater"} -> 15
      [] OTHER -> DefaultRate

\* Math.round(price * rate): halves round up
Subsidy(price, rate) == (price * rate + 50) \div 100

Fits_IgnoresPrice(spend, price, limit) == spend <= limit

\* the while loop's test: spend + price <= budget
Fits(spend, price, limit) == spend + price <= limit

\* the while loop: how many times its body runs from spend
RECURSIVE Count(_, _, _)
Count(spend, price, limit) ==
    IF Fits(spend, price, limit) THEN 1 + Count(spend + price, price, limit) ELSE 0

\* for (const tag of TAGS): count++, spend += price and totalSub += Math.round(price *
\* rate) once per pass of the while loop; the item is pushed if (count > 0)
RECURSIVE PlanLoop(_, _, _, _, _)
PlanLoop(tags, limit, items, spend, totalSub) ==
    IF tags = <<>>
    THEN [items |-> items, spend |-> spend, totalSub |-> totalSub]
    ELSE LET tag == Head(tags)
             price == Price(tag)
             subsidy == Subsidy(price, Rate(tag))
             count == Count(spend, price, limit)
         IN PlanLoop(Tail(tags), limit,
                     IF count > 0
                     THEN Append(items, [name |-> tag, count |-> count, price |-> price,
                                         subsidy |-> subsidy])
                     ELSE items,
                     spend + count * price,
                     totalSub + count * subsidy)

\* buildPlan; utilization, the quotient spend / budget, is kept as a fraction
BuildPlan(limit, tags) ==
    LET TAGS == IF Len(tags) # 0 THEN tags ELSE <<"aircon", "fridge">>
        end == PlanLoop(TAGS, limit, <<>>, 0, 0)
    IN [items |-> end.items,
        total_subsidy |-> end.totalSub,
        net_spend |-> IF end.spend - end.totalSub > 0 THEN end.spend - end.totalSub ELSE 0,
        utilization |-> IF end.spend > 0 THEN [num |-> end.spend, den |-> limit]
                        ELSE [num |-> 0, den |-> 1]]

\* the slider's values
Budgets == {b \in MinBudget..MaxBudget : (b - MinBudget) % BudgetStep = 0}

\* the tag buttons' selections: each tag at most once, in the order of the clicks
TagSelections ==
    {t \in UNION {[1..n -> Tags] : n \in 0..MaxTags} :
        \A i, j \in 1..Len(t) : i # j => t[i] # t[j]}

\* calculate: setLoading(true); setResult(null); the request is sent
Calculate ==
    /\ ~loading
    /\ loading' = TRUE
    /\ calcResult' = NoPlan
    /\ last' = Op("calculate", 0, "", <<>>)
    /\ UNCHANGED <<budget, selectedTags, chat, typing, voice, clock>>

\* the request fails (catch), or its answer holds no plan: buildPlan's result is shown
CalculateFallsBack ==
    /\ loading
    /\ loading' = FALSE
    /\ calcResult' = BuildPlan(budget, selectedTags)
    /\ last' = Op("calculate", 0, "plan", <<>>)
    /\ UNCHANGED <<budget, selectedTags, chat, typing, voice, clock>>

\* ---------------------------------------------------------------- specifications
\* ChatModule after its mount effects ran: without navigator.geolocation the default
\* location is set at once
InitChat ==
    /\ messages = <<Greeting>>
    /\ ids = <<1>>
    /\ now = FirstInstant
    /\ input = <<>>
    /\ isThinking = FALSE
    /\ \/ geo = "pending" /\ userLocation = NoLocation
       \/ geo = "done" /\ userLocation = LocationOnError
    /\ typingMessage = <<>>
    /\ isTyping = FALSE
    /\ typingIndex = 0
    /\ typingInterval = 0
    /\ timers = <<>>
    /\ nextTimer = 1
    /\ sessions = <<>>
    /\ last = Op("mount", 0, "", <<>>)

\* the voice effect: recognition is set only where the host has SpeechRecognition
InitVoice(supported) ==
    /\ recognition = supported
    /\ isListening = FALSE
    /\ capture = "idle"

\* CalculatorModule's initial state
InitCalculator ==
    /\ budget = DefaultBudget
    /\ selectedTags = <<>>
    /\ loading = FALSE
    /\ calcResult = NoPlan

\* a host with speech recognition
Init == InitChat /\ InitVoice(TRUE) /\ InitCalculator

\* ChatModule as written: nothing in it calls typeMessage
Next ==
    \/ \E v \in InputTexts : SetInput(v)
    \/ SendButton
    \/ EnterKey
    \/ \E q \in QuickQuestions : QuickQuestion(q)
    \/ \E s \in 1..MaxSessions, f \in Frames : OnMessage(s, f)
    \/ \E s \in 1..MaxSessions : OnError(s)
    \/ \E s \in 1..MaxSessions, o \in FetchOutcomes : FetchSettles(s, o)
    \/ GeoSuccess
    \/ GeoError

Spec == Init /\ [][Next]_vars

\* the formatting of the final text, exercised over every payload shape: queries from the
\* quick-question buttons, answered by a complete frame or, after a transport error, by
\* the fallback's response
NextFormat ==
    \/ \E q \in QuickQuestions : QuickQuestion(q)
    \/ \E s \in 1..MaxSessions, r \in FormatPayloads : OnMessage(s, CompleteFrame(r))
    \/ \E s \in 1..MaxSessions : OnError(s)
    \/ \E s \in 1..MaxSessions, r \in FormatPayloads :
          FetchSettles(s, [status |-> "ok", data |-> r])

SpecFormat == Init /\ [][NextFormat]_vars

\* the fallback endpoint never responds: every handler but the fetch's promise chain,
\* each scheduled fairly by the event loop
NextSilentFallback ==
    \/ \E v \in InputTexts : SetInput(v)
    \/ SendButton
    \/ EnterKey
    \/ \E q \in QuickQuestions : QuickQuestion(q)
    \/ \E s \in 1..MaxSessions, f \in Frames : OnMessage(s, f)
    \/ \E s \in 1..MaxSessions : OnError(s)
    \/ GeoSuccess
    \/ GeoError

SpecSilentFallback == Init /\ [][NextSilentFallback]_vars /\ WF_vars(NextSilentFallback)

\* typeMessage and clearTyping driven on their own: the calls the component can make
\* of them, and the interval's ticks
NextTypewriter ==
    \/ \E m \in TypeTexts : TypeMessage(m)
    \/ \E h \in 1..MaxRuns : TypeTick(h)
    \/ ClearTypingCall

SpecTypewriter == Init /\ [][NextTypewriter]_vars

\* an armed interval keeps firing: the event loop runs every due timer
SpecTypewriterFair == SpecTypewriter /\ WF_vars(\E h \in 1..MaxRuns : TypeTick(h))

\* the voice input beside the queries, in a host with or without speech recognition
InitAnyHost == InitChat /\ (\E supported \in BOOLEAN : InitVoice(supported)) /\ InitCalculator

NextVoice ==
    \/ ToggleVoiceInput
    \/ VoiceOnStart
    \/ \E t \in VoiceTexts, f \in BOOLEAN : VoiceOnResult(t, f)
    \/ VoiceOnError
    \/ VoiceOnEnd
    \/ EnterKey
    \/ \E q \in QuickQuestions : QuickQuestion(q)
    \/ \E s \in 1..MaxSessions, r \in Payloads : OnMessage(s, CompleteFrame(r))

SpecVoice == InitAnyHost /\ [][NextVoice]_vars

\* the queries while the clock advances
NextIds ==
    \/ Tick
    \/ \E v \in InputTexts : SetInput(v)
    \/ EnterKey
    \/ \E q \in QuickQuestions : QuickQuestion(q)
    \/ \E s \in 1..MaxSessions, r \in Payloads : OnMessage(s, CompleteFrame(r))

SpecIds == Init /\ [][NextIds]_vars

\* buildPlan over every budget of the slider and every selection of at most MaxTags tags
InitPlan ==
    /\ InitChat
    /\ InitVoice(TRUE)
    /\ budget \in Budgets
    /\ selectedTags \in TagSelections
    /\ loading = FALSE
    /\ calcResult = NoPlan

NextPlan ==
    \/ Calculate
    \/ CalculateFallsBack

SpecPlan == InitPlan /\ [][NextPlan]_vars

\* ---------------------------------------------------------------- properties
SessionIds == 1..Len(sessions)

\* the assistant messages appended on behalf of query s
BotCount(s) ==
    Cardinality({i \in 1..Len(messages) : messages[i].type = "bot" /\ messages[i].sid = s})

\* the session's stream is closed and no fallback request of it is in flight
Ended(s) == sessions[s].es = "closed" /\ sessions[s].fetch # "pending"

\* stream open, or fallback request in flight
Active(s) == sessions[s].es = "open" \/ sessions[s].fetch = "pending"

RECURSIVE Flatten(_)
Flatten(parts) == IF parts = <<>> THEN <<>> ELSE Head(parts) \o Flatten(Tail(parts))

\* the handler that just ran was an error of session s: an `error` frame or a transport error
ErrorOf(s) ==
    /\ last.sid = s
    /\ \/ last.op = "onmessage" /\ last.kind = "error"
       \/ last.op = "onerror"

\* C1: every session that has ended (complete frame, error frame, transport error before
\* or after chunks, fallback success or failure) has exactly one assistant message in the
\* transcript.
C1_ExactlyOneReplyPerEndedSession ==
    \A s \in SessionIds : Ended(s) => BotCount(s) = 1

\* C2: a stream callback (frame or transport error) of a session that is no longer the
\* newest one leaves the transcript and the display buffer (typingMessage, isTyping)
\* unchanged.
C2_StaleStreamEventsAreNoOps ==
    [][(last'.op \in {"onmessage", "onerror"} /\ last'.sid < Len(sessions))
         => UNCHANGED <<messages, typingMessage, isTyping>>]_vars

C4_NoFallbackAfterChunk ==
    \A s \in SessionIds :
        sessions[s].chunks # <<>> => (sessions[s].fetchCalls = 0 /\ sessions[s].fetch = "none")

C4_Witness ==
    \E s \in SessionIds :
        /\ last.op = "onerror" /\ last.sid = s
        /\ sessions[s].chunks # <<>>
        /\ sessions[s].es = "closed"
        /\ sessions[s].fetchCalls = 0

\* C5: a session's accumulated text is the concatenation, in delivery order, of the chunk
\* contents delivered to it, and right after a chunk is processed the display buffer
\* holds that same concatenation.
C5_ConcatenationLaw ==
    \A s \in SessionIds :
        /\ sessions[s].accumulatedText = Flatten(sessions[s].chunks)
        /\ (last.op = "onmessage" /\ last.kind = "chunk" /\ last.sid = s)
              => typingMessage = Flatten(sessions[s].chunks)

C5_Witness ==
    \E s \in SessionIds :
        /\ last.op = "onmessage" /\ last.kind = "chunk" /\ last.sid = s
        /\ Len(sessions[s].chunks) = 2
        /\ sessions[s].chunks[1] # sessions[s].chunks[2]

\* C6: a submit whose text is empty or only whitespace changes neither the transcript,
\* the input buffer, isThinking nor the typewriter state, and opens no stream and issues
\* no fallback request (the sessions are unchanged).
C6_BlankSubmitIsNoOp ==
    [][(last'.op = "send" /\ \A i \in 1..Len(last'.text) : last'.text[i] = " ")
         => UNCHANGED <<messages, input, isThinking, typing, sessions>>]_vars

C6_Witness ==
    /\ last.op = "send"
    /\ last.text = <<" ">>
    /\ Len(messages) > 1

\* C9: no query ever has more than one assistant message in the transcript.
C9_AtMostOneReplyPerQuery ==
    \A s \in SessionIds : BotCount(s) <= 1

C9_Witness ==
    /\ Len(sessions) = 2
    /\ \A s \in SessionIds : Ended(s) /\ BotCount(s) = 1
    /\ \E s \in SessionIds : sessions[s].fetchCalls = 1

\* C10: at most one session is active (stream open or fallback request in flight).
C10_AtMostOneActiveSession ==
    Cardinality({s \in SessionIds : Active(s)}) <= 1

\* C7: while a typewriter run is the current one, its offset and the length of the
\* revealed buffer are at most the length of the run's text, and neither decreases from
\* one step of the run to the next.
C7_RevealBoundedAndMonotone ==
    /\ [](typingInterval \in DOMAIN timers =>
             /\ typingIndex <= Len(timers[typingInterval])
             /\ Len(typingMessage) <= Len(timers[typingInterval]))
    /\ [][(typingInterval # 0 /\ typingInterval' = typingInterval) =>
             /\ typingIndex' >= typingIndex
             /\ Len(typingMessage') >= Len(typingMessage)]_vars

C7_Witness ==
    /\ typingInterval \in DOMAIN timers
    /\ Len(timers[typingInterval]) = 3
    /\ typingIndex = 3

\* C8: with the interval's ticks scheduled fairly, a run that is current eventually
\* reaches offset = length of its text or stops being current (clearTyping, a newer
\* typeMessage); a run at offset = length eventually has its timer released; and a tick
\* ends a run only at offset = length.
C8_RunReachesEndOrIsCancelled ==
    /\ \A h \in 1..MaxRuns :
          /\ (h \in DOMAIN timers /\ typingInterval = h) ~>
                \/ (h \in DOMAIN timers /\ typingInterval = h /\ typingIndex = Len(timers[h]))
                \/ typingInterval # h
          /\ (h \in DOMAIN timers /\ typingInterval = h /\ typingIndex = Len(timers[h]))
                ~> (h \notin DOMAIN timers)
    /\ [][(last'.op = "tick" /\ last'.kind = "end") => typingIndex = Len(last'.text)]_vars

C8_Witness ==
    /\ last.op = "tick" /\ last.kind = "end"
    /\ Len(last.text) = 3
    /\ timers = <<>>

\* the text of query s's assistant message
ReplyText(s) ==
    messages[CHOOSE i \in 1..Len(messages) :
                 messages[i].type = "bot" /\ messages[i].sid = s].text

\* the position of query s's user message
UserIndex(s) ==
    CHOOSE i \in 1..Len(messages) : messages[i].type = "user" /\ messages[i].sid = s

\* C11: right after an error (error frame or transport error) of a session that received
\* at least one chunk, the session has exactly one assistant message, it is the last of
\* the transcript and a failure notice, the stream is closed and isThinking is cleared.
C11_FailureNoticeAfterPartialData ==
    \A s \in SessionIds :
        (ErrorOf(s) /\ sessions[s].chunks # <<>>) =>
            /\ BotCount(s) = 1
            /\ messages[Len(messages)].sid = s
            /\ messages[Len(messages)].text.kind \in {"error", "unavailable"}
            /\ sessions[s].es = "closed"
            /\ ~isThinking

\* C12: a query answered by a complete frame and a query answered by the fallback with
\* the same payload carry the same text; every reply holds the payload's answer and its
\* confidence as a percentage rounded to one decimal, lists at most the first two sources
\* in payload order, and has no sources section when sources is empty or no array.
C12_SameFormatOnBothPaths ==
    \A s \in SessionIds : BotCount(s) = 1 =>
        /\ \A t \in SessionIds :
              (/\ BotCount(t) = 1
               /\ sessions[s].isCompleted /\ sessions[t].fetch = "settled"
               /\ sessions[s].result = sessions[t].result)
                  => ReplyText(s) = ReplyText(t)
        /\ LET text == ReplyText(s)
               result == sessions[s].result
               conf == IF result.confidence < 0 THEN 0 ELSE result.confidence
           IN /\ text.body = result.answer
              /\ text.pct * 10 - conf \in -4..5
              /\ Len(text.sources) <= 2
              /\ Len(text.sources) <= Len(result.sources)
              /\ \A i \in 1..Len(text.sources) :
                    /\ text.sources[i].n = i
                    /\ text.sources[i].source = result.sources[i].source
              /\ (result.isArray /\ Len(result.sources) > 0) => Len(text.sources) > 0
              /\ (~result.isArray \/ result.sources = <<>>) => text.sources = <<>>

C12_Witness ==
    \E s, t \in SessionIds :
        /\ BotCount(s) = 1 /\ BotCount(t) = 1
        /\ sessions[s].isCompleted /\ sessions[t].fetch = "settled"
        /\ sessions[s].result = sessions[t].result
        /\ Len(sessions[s].result.sources) = 3
        /\ sessions[s].result.confidence = 9235

\* C13: right after the fallback settles, the session has exactly one assistant message,
\* the last of the transcript, isThinking is cleared and the session is ended; when the
\* fallback failed (rejection, non-ok status, unparsable body) that message is the
\* service-unavailable notice.
C13_FallbackEndsWithOneMessage ==
    \A s \in SessionIds :
        (last.op = "fetch" /\ last.sid = s) =>
            /\ BotCount(s) = 1
            /\ messages[Len(messages)].sid = s
            /\ messages[Len(messages)].type = "bot"
            /\ last.kind \in FetchFailures => messages[Len(messages)].text = UnavailableText
            /\ last.kind = "ok" => messages[Len(messages)].text.kind = "reply"
            /\ Ended(s)
            /\ ~isThinking

C13_Witness ==
    \E s \in SessionIds :
        /\ last.op = "fetch" /\ last.sid = s /\ last.kind = "notok"
        /\ ReplyText(s) = UnavailableText

\* C14: no fallback request is in flight while a stream, of any session, is open.
C14_NoFallbackBesideOpenStream ==
    ~ \E s, t \in SessionIds : sessions[s].fetch = "pending" /\ sessions[t].es = "open"

\* C15: the fallback response of a session that is no longer the newest one leaves the
\* transcript and isThinking unchanged.
C15_StaleFallbackIsDiscarded ==
    [][(last'.op = "fetch" /\ last'.sid < Len(sessions))
         => UNCHANGED <<messages, isThinking>>]_vars

\* C16: a session whose fallback request is in flight eventually ends with the request
\* settled, an assistant message and isThinking cleared, even when the endpoint never
\* responds; and no session issues the request twice.
C16_SilentFallbackStillEnds ==
    /\ \A s \in 1..MaxSessions :
          (s \in SessionIds /\ sessions[s].fetch = "pending")
              ~> (s \in SessionIds /\ sessions[s].fetch = "settled" /\ BotCount(s) = 1)
    /\ [](\A s \in SessionIds : sessions[s].fetchCalls <= 1)

\* C17: at most one interval is armed, and it is the one typingInterval holds; right
\* after clearTyping (called directly or by the tick that ends a run) no interval is
\* armed, the buffer is empty, the offset is 0 and isTyping is false.
C17_SingleTimer ==
    /\ Cardinality(DOMAIN timers) <= 1
    /\ DOMAIN timers \subseteq {typingInterval}
    /\ (last.op = "clearTyping" \/ (last.op = "tick" /\ last.kind = "end")) =>
          /\ timers = <<>>
          /\ typingInterval = 0
          /\ typingMessage = <<>>
          /\ typingIndex = 0
          /\ ~isTyping

C17_Witness ==
    /\ last.op = "typeMessage"
    /\ last.sid = 3
    /\ DOMAIN timers = {3}

\* C18 as stated: right after a chunk is processed a typewriter run over the cumulative
\* text is armed and starts from offset 0 with an empty buffer.
C18_ChunkRestartsTypewriter ==
    \A s \in SessionIds :
        (last.op = "onmessage" /\ last.kind = "chunk" /\ last.sid = s) =>
            /\ typingInterval \in DOMAIN timers
            /\ timers[typingInterval] = sessions[s].accumulatedText
            /\ typingIndex = 0
            /\ typingMessage = <<>>

\* C18 amended: a chunk sets the display buffer to the cumulative text at once and raises
\* isTyping; it arms and cancels no interval and leaves the offset alone.
C18_ChunkSetsBufferDirectly ==
    [][(last'.op = "onmessage" /\ last'.kind = "chunk") =>
          /\ typingMessage' = sessions'[last'.sid].accumulatedText
          /\ typingMessage' # <<>>
          /\ isTyping'
          /\ UNCHANGED <<typingIndex, typingInterval, timers, nextTimer>>]_vars

C18_Witness ==
    \E s \in SessionIds :
        /\ last.op = "onmessage" /\ last.kind = "chunk" /\ last.sid = s
        /\ Len(sessions[s].chunks) = 2
        /\ typingMessage = sessions[s].accumulatedText
        /\ timers = <<>>

\* C19: right after a complete frame is processed the stream is closed, the display
\* buffer is empty, isTyping is false, no interval is armed and the last message is the
\* session's reply holding the payload's answer; and no stream callback ever runs for a
\* session that has completed.
C19_CompleteClosesAndCommits ==
    /\ [](\A s \in SessionIds :
            (last.op = "onmessage" /\ last.kind = "complete" /\ last.sid = s) =>
                /\ sessions[s].es = "closed"
                /\ typingMessage = <<>>
                /\ ~isTyping
                /\ typingInterval = 0
                /\ messages[Len(messages)] = BotMessage(messages[Len(messages)].text, s)
                /\ messages[Len(messages)].text.kind = "reply"
                /\ messages[Len(messages)].text.body = sessions[s].result.answer)
    /\ [][\A s \in SessionIds :
            sessions[s].isCompleted =>
                ~(last'.op \in {"onmessage", "onerror"} /\ last'.sid = s
                    /\ sessions'[s] # sessions[s])]_vars

C19_Witness ==
    \E s \in SessionIds :
        /\ last.op = "onmessage" /\ last.kind = "complete" /\ last.sid = s
        /\ sessions[s].chunks # <<>>
        /\ typingMessage = <<>>

\* C20: every session has exactly one user message, carrying the submitted text; it is
\* the last message right after the submit; and every assistant message of the session
\* comes after it.
C20_UserMessageFirst ==
    /\ \A s \in SessionIds :
          /\ Cardinality({i \in 1..Len(messages) :
                 messages[i].type = "user" /\ messages[i].sid = s}) = 1
          /\ messages[UserIndex(s)].text = UserText(sessions[s].text)
          /\ \A i \in 1..Len(messages) :
                (messages[i].type = "bot" /\ messages[i].sid = s) => i > UserIndex(s)
    /\ (last.op = "send" /\ last.sid > 0) =>
          messages[Len(messages)] = [type |-> "user", text |-> UserText(last.text),
                                     sid |-> last.sid]

C20_Witness ==
    /\ Len(sessions) = 2
    /\ sessions[2].text = <<" ", "b">>
    /\ BotCount(1) = 1 /\ BotCount(2) = 1
    /\ messages[Len(messages)].sid = 1

\* C21: a press of the microphone button while a capture session of the browser has not
\* ended (started, or start requested and onstart not yet fired) starts no second
\* session and raises no notice: it never takes the branch that alerts that the start
\* failed, and a press that requests a start finds the recognition idle.
C21_StartWhileActiveIsSilent ==
    /\ ~(last.op = "toggle" /\ last.kind = "startfailed")
    /\ (last.op = "toggle" /\ last.kind = "start") => capture = "starting"
    /\ isListening => capture \in {"capturing", "stopping", "ending"}

\* C22: in a host without speech recognition isListening stays false and no capture
\* session exists; every press of the microphone button takes the branch that only
\* alerts, leaving isListening, the input buffer, the transcript, the sessions and
\* isThinking unchanged; and a submit of a non-blank text still appends its user
\* message and opens its session.
C22_NoCapabilityToggleOnlyNotifies ==
    /\ [](~recognition => (~isListening /\ capture = "idle"))
    /\ [][(~recognition /\ last'.op = "toggle") =>
             /\ last'.kind = "unsupported"
             /\ UNCHANGED <<isListening, capture, input, messages, sessions, isThinking>>]_vars
    /\ [][(~recognition /\ last'.op = "send" /\ ~Rejects(last'.text)) =>
             /\ Len(messages') = Len(messages) + 1
             /\ Len(sessions') = Len(sessions) + 1
             /\ sessions'[Len(sessions')].es = "open"]_vars

C22_Witness ==
    /\ ~recognition
    /\ last.op = "toggle" /\ last.kind = "unsupported"
    /\ Len(sessions) = 2
    /\ BotCount(1) = 1
    /\ sessions[2].es = "open"

\* C23: the location is resolved exactly when the lookup is done, and a resolved location
\* always holds the default province and city; once done the lookup never runs again,
\* and no submit starts it or changes the location; a non-blank submit made while the
\* lookup is pending still opens its stream, with the question and without location
\* parameters; and every stream carries the city and province only of a location that
\* was resolved at submit.
C23_LocationAlwaysResolvesToDefault ==
    /\ [](/\ (geo = "done") = userLocation.set
          /\ userLocation.set =>
                (userLocation.province = "Shandong" /\ userLocation.city = "Jinan")
          /\ \A s \in SessionIds :
                /\ sessions[s].url.question = sessions[s].text
                /\ sessions[s].url.city = (IF sessions[s].location.set THEN "Jinan" ELSE "")
                /\ sessions[s].url.province =
                       (IF sessions[s].location.set THEN "Shandong" ELSE ""))
    /\ [][geo = "done" => UNCHANGED <<geo, userLocation>>]_vars
    /\ [][last'.op = "send" => UNCHANGED <<geo, userLocation>>]_vars
    /\ [][(last'.op = "send" /\ ~Rejects(last'.text) /\ geo = "pending") =>
             /\ Len(sessions') = Len(sessions) + 1
             /\ sessions'[Len(sessions')].es = "open"
             /\ sessions'[Len(sessions')].url =
                    [question |-> last'.text, city |-> "", province |-> "",
                     district |-> ""]]_vars

C23_Witness ==
    /\ Len(sessions) = 2
    /\ ~sessions[1].location.set
    /\ sessions[2].location = DefaultLocation
    /\ last.op = "send"
    /\ BotCount(1) = 1

\* a frame the handler threw on: JSON.parse rejected its data
Escaped == last.op = "onmessage" /\ last.kind = "badjson"

\* C24: no stream frame makes the message handler throw, and every ended session that
\* received a frame other than a chunk (a complete or error frame, a frame of unknown
\* type, a frame that is no JSON) has its one assistant message.
C24_NoExceptionAndTerminalMessage ==
    /\ ~Escaped
    /\ \A s \in SessionIds :
          (Ended(s) /\ sessions[s].frames > Len(sessions[s].chunks)) => BotCount(s) = 1

\* C25: every step leaves the transcript as it was or appends exactly one message to it:
\* the earlier transcript is a prefix of the later one; and the greeting stays first.
C25_TranscriptAppendOnly ==
    /\ [][\/ messages' = messages
          \/ /\ Len(messages') = Len(messages) + 1
             /\ SubSeq(messages', 1, Len(messages)) = messages]_vars
    /\ [](messages[1] = Greeting)

C25_Witness ==
    /\ Len(messages) = 5
    /\ last.op = "fetch"
    /\ messages[5].sid = 1

\* C26: the fallback request of a session carries the session's question and the location
\* the session captured at submit, the one its stream was opened with, whatever the
\* shared location is when the stream fails.
C26_FallbackCarriesCapturedContext ==
    \A s \in SessionIds :
        /\ sessions[s].url = StreamUrl(sessions[s].text, sessions[s].location)
        /\ sessions[s].fetchCalls > 0 =>
              sessions[s].body = [question |-> sessions[s].text,
                                  location |-> sessions[s].location]

C26_Witness ==
    \E s \in SessionIds :
        /\ last.op = "onerror" /\ last.sid = s /\ last.kind = "fallback"
        /\ sessions[s].body.location = NoLocation
        /\ userLocation = LocatedLocation

\* C27: while a typewriter run is the current one, the revealed buffer is the prefix of
\* the run's text whose length is the offset.
C27_RevealedIsPrefixOfText ==
    typingInterval \in DOMAIN timers =>
        typingMessage = SubSeq(timers[typingInterval], 1, typingIndex)

\* C28: isThinking is true while a session is active (stream open or fallback request in
\* flight); and once every submitted session has ended, isThinking and isTyping are
\* false and the display buffer is empty.
C28_FlagsTrackSessions ==
    /\ (\E s \in SessionIds : Active(s)) => isThinking
    /\ (sessions # <<>> /\ \A s \in SessionIds : Ended(s)) =>
          (~isThinking /\ ~isTyping /\ typingMessage = <<>>)

\* C29: every message has an id, and no two messages of the transcript have the same id.
C29_DistinctIds ==
    /\ Len(ids) = Len(messages)
    /\ \A i, j \in 1..Len(ids) : i # j => ids[i] # ids[j]

\* sum of count * price over the items of a plan
RECURSIVE Spend(_)
Spend(items) ==
    IF items = <<>> THEN 0 ELSE Head(items).count * Head(items).price + Spend(Tail(items))

\* sum of count * subsidy over the items of a plan
RECURSIVE SubsidyOf(_)
SubsidyOf(items) ==
    IF items = <<>> THEN 0
    ELSE Head(items).count * Head(items).subsidy + SubsidyOf(Tail(items))

\* C30: the plan buildPlan returns spends at most the budget; its total_subsidy is the
\* sum of count * subsidy over its items; its net_spend is the spend minus total_subsidy
\* and is not negative; its utilization lies in [0, 1]; and every item has a positive
\* count.  (buildPlan returning at all is its termination.)
C30_PlanNeverOverspends ==
    (last.op = "calculate" /\ last.kind = "plan") =>
        /\ Spend(calcResult.items) <= budget
        /\ calcResult.total_subsidy = SubsidyOf(calcResult.items)
        /\ calcResult.net_spend = Spend(calcResult.items) - calcResult.total_subsidy
        /\ calcResult.net_spend >= 0
        /\ calcResult.utilization.den > 0
        /\ calcResult.utilization.num >= 0
        /\ calcResult.utilization.num <= calcResult.utilization.den
        /\ \A i \in 1..Len(calcResult.items) : calcResult.items[i].count > 0

C30_Witness ==
    /\ last.op = "calculate" /\ last.kind = "plan"
    /\ Len(calcResult.items) = 2
    /\ calcResult.items[1].count = 2
    /\ calcResult.utilization.num < calcResult.utilization.den

====
